---------------------------- MODULE Spec2Model ----------------------------
(***************************************************************************)
(* State-machine model of pyapi.py: a Flask service that runs a detector   *)
(* over an uploaded parking-lot image, counts free and occupied spots,     *)
(* draws the detections on a copy of the image and keeps the last          *)
(* annotated image in the file LAST_PATH.                                  *)
(*                                                                         *)
(* Three specifications share the helper definitions:                      *)
(*   CountSpec   count_spots and the branch draw_detections takes, over    *)
(*               bounded label vocabularies and class sequences;           *)
(*   RenderSpec  draw_detections on numpy arrays held in a heap of         *)
(*               references, so that in-place drawing is visible;          *)
(*   Spec        the three routes served by threads (app.run with          *)
(*               threaded=True) sharing the file at LAST_PATH.             *)
(***************************************************************************)
EXTENDS Integers, Sequences, FiniteSets, TLC

VARIABLES
    \* ---- CountSpec ----
    cpc,        \* position in the counting pipeline
    result,     \* the detector result: [names, cls]
    counts,     \* what count_spots returned: <<open_cnt, occ_cnt>>
    branches,   \* the branch count_spots took for each detection
    styles,     \* the branch draw_detections took for each detection
    body,       \* the JSON body detect_route builds from the counts
    \* ---- RenderSpec ----
    heap,       \* the numpy arrays, by reference
    imgRef,     \* detect_route's img
    annRef,     \* detect_route's annotated
    calls,      \* the calls made so far: argument, pixels before and after
    \* ---- Spec ----
    file,       \* the file at LAST_PATH: [exists, data]
    pc,         \* where each thread stands in its handler
    loc,        \* each thread's local variables
    resp,       \* the last response each thread sent
    eff,        \* history: what the request behind resp did and saw
    anyOk,      \* history: some /detect of this process answered ok=true
    lastOk,     \* history: the artifact of the latest /detect that answered ok=true
    got200,     \* history: /get_image has answered 200
    overlap,    \* history: two requests were in flight at once
    nreq        \* requests received so far

countVars  == <<cpc, counts, branches, styles, body>>
renderVars == <<heap, imgRef, annRef, calls>>
serverVars == <<file, pc, loc, resp, eff, anyOk, lastOk, got200, overlap, nreq>>
vars == <<result, countVars, renderVars, serverVars>>

None == "None"

(***************************************************************************)
(* Strings.  A label is a sequence of one-character strings, so that       *)
(* str.lower() is computed character by character.                         *)
(***************************************************************************)
LowerCase == <<"a","b","c","d","e","f","g","h","i","j","k","l","m",
               "n","o","p","q","r","s","t","u","v","w","x","y","z">>
UpperCase == <<"A","B","C","D","E","F","G","H","I","J","K","L","M",
               "N","O","P","Q","R","S","T","U","V","W","X","Y","Z">>

\* one character of str.lower(): an ASCII capital maps to its small letter
LowerChar(c) ==
    IF \E i \in 1..26 : UpperCase[i] = c
    THEN LowerCase[CHOOSE i \in 1..26 : UpperCase[i] = c]
    ELSE c

UpperChar(c) ==
    IF \E i \in 1..26 : LowerCase[i] = c
    THEN UpperCase[CHOOSE i \in 1..26 : LowerCase[i] = c]
    ELSE c

\* a mutant of str_lower: the label is compared as the detector spells it
str_lower_missing(s) == s

\* names[int(cls)].lower()
str_lower(s) == [i \in 1..Len(s) |-> LowerChar(s[i])]

str_upper(s) == [i \in 1..Len(s) |-> UpperChar(s[i])]
str_capitalize(s) == [i \in 1..Len(s) |-> IF i = 1 THEN UpperChar(s[i]) ELSE s[i]]

FREE_LABELS == { <<"f","r","e","e">>, <<"o","p","e","n">>,
                 <<"v","a","c","a","n","t">>, <<"e","m","p","t","y">>,
                 <<"a","v","a","i","l","a","b","l","e">> }
OCC_LABELS  == { <<"o","c","c","u","p","i","e","d">>, <<"t","a","k","e","n">>,
                 <<"p","a","r","k","e","d">>, <<"b","l","o","c","k","e","d">> }

(***************************************************************************)
(* count_spots                                                             *)
(***************************************************************************)
\* a mutant of CountBranch: every label that is not free counts as occupied
CountBranchElse(lbl) ==
    IF lbl \in FREE_LABELS THEN "open" ELSE "occ"

\* the if / elif of the loop body, on the lower-cased label
CountBranch(lbl) ==
    IF lbl \in FREE_LABELS THEN "open"
    ELSE IF lbl \in OCC_LABELS THEN "occ"
    ELSE "skip"

\* lbl = names[int(cls)].lower()
LabelOf(res, k) == str_lower(res.names[res.cls[k]])

RECURSIVE CountLoop(_, _, _, _)
CountLoop(res, k, open_cnt, occ_cnt) ==
    IF k > Len(res.cls) THEN <<open_cnt, occ_cnt>>
    ELSE LET b == CountBranch(LabelOf(res, k))
         IN  CountLoop(res, k + 1,
                       IF b = "open" THEN open_cnt + 1 ELSE open_cnt,
                       IF b = "occ" THEN occ_cnt + 1 ELSE occ_cnt)

count_spots(res) == CountLoop(res, 1, 0, 0)

(***************************************************************************)
(* draw_detections: the style chosen for one detection                     *)
(***************************************************************************)
GREEN == <<0, 200, 0>>
RED   == <<50, 50, 200>>
WHITE == <<255, 255, 255>>
ThickFree  == 3
ThickOther == 1

\* the if / else of the loop body, on the lower-cased label
DrawStyle(lbl) ==
    IF lbl \in FREE_LABELS
    THEN [free |-> TRUE,  color |-> GREEN, thickness |-> ThickFree]
    ELSE [free |-> FALSE, color |-> RED,   thickness |-> ThickOther]

(***************************************************************************)
(* Images.  A numpy array of shape (h, w, 3) is [h, w, px], px mapping     *)
(* <<y, x>> to a <<b, g, r>> pixel.  Arrays live in a heap (a sequence     *)
(* indexed by reference), so that a call that draws on its argument is     *)
(* told apart from one that draws on a copy.                               *)
(***************************************************************************)
Min(a, b) == IF a < b THEN a ELSE b
Max(a, b) == IF a > b THEN a ELSE b

Pixels(img) == (0..(img.h - 1)) \X (0..(img.w - 1))

\* int(v) for a coordinate held in half pixels: truncation toward zero
IntOf(v) == IF v >= 0 THEN v \div 2 ELSE -((-v) \div 2)

\* cv2.rectangle(img, (xa, ya), (xb, yb), color, -1): the filled rectangle,
\* both corners included, clipped to the image
FillRect(img, xa, ya, xb, yb, color) ==
    [img EXCEPT !.px =
        [p \in Pixels(img) |->
            IF /\ Min(xa, xb) <= p[2] /\ p[2] <= Max(xa, xb)
               /\ Min(ya, yb) <= p[1] /\ p[1] <= Max(ya, yb)
            THEN color ELSE img.px[p]]]

\* cv2.rectangle(img, (xa, ya), (xb, yb), color, thickness): the outline, the
\* stroke reaching (thickness - 1) / 2 pixels to either side of each edge
StrokeRect(img, xa, ya, xb, yb, color, thickness) ==
    LET r   == (thickness - 1) \div 2
        xlo == Min(xa, xb)
        xhi == Max(xa, xb)
        ylo == Min(ya, yb)
        yhi == Max(ya, yb)
        Outer(p) == /\ xlo - r <= p[2] /\ p[2] <= xhi + r
                    /\ ylo - r <= p[1] /\ p[1] <= yhi + r
        Inner(p) == /\ xlo + r < p[2] /\ p[2] < xhi - r
                    /\ ylo + r < p[1] /\ p[1] < yhi - r
    IN  [img EXCEPT !.px =
            [p \in Pixels(img) |->
                IF Outer(p) /\ ~Inner(p) THEN color ELSE img.px[p]]]

\* saturate_cast<uchar>(cvRound(0.35 * a + 0.65 * b)), cvRound rounding to the
\* nearest integer, halves to the even one
Blend(a, b) ==
    LET n == 35 * a + 65 * b
        q == n \div 100
        m == n % 100
        v == IF m < 50 THEN q
             ELSE IF m > 50 THEN q + 1
             ELSE IF q % 2 = 0 THEN q ELSE q + 1
    IN  Min(255, Max(0, v))

\* cv2.addWeighted(overlay, 0.35, img, 0.65, 0, img): the blend, stored in img
AddWeighted(overlay, img) ==
    [img EXCEPT !.px =
        [p \in Pixels(img) |->
            [c \in 1..3 |-> Blend(overlay.px[p][c], img.px[p][c])]]]

\* cv2.getTextSize(txt, FONT_HERSHEY_SIMPLEX, 0.6, 2): the width and height of
\* the label text, which the font decides
TextW == 2
TextH == 1

\* cv2.putText(img, txt, (x, y), ...): the glyphs are painted as the text's
\* box, TextW wide and TextH high, whose bottom-left corner is (x, y).  The
\* confidence of txt = f"Free {conf:.2f}" only chooses the glyphs, so a
\* detection carries none here.
PutText(img, x, y, color) ==
    FillRect(img, x, y - TextH + 1, x + TextW - 1, y, color)

\* the loop body of draw_detections on one detection
DrawOne(img, xyxy, lbl) ==
    LET x1 == IntOf(xyxy[1])
        y1 == IntOf(xyxy[2])
        x2 == IntOf(xyxy[3])
        y2 == IntOf(xyxy[4])
        st == DrawStyle(lbl)
        y0 == Max(0, y1 - TextH - 6)
        overlay  == FillRect(img, x1, y0, x1 + TextW + 8, y1, st.color)
        labelled ==
            IF st.free
            THEN PutText(AddWeighted(overlay, img), x1 + 4, y1 - 4, WHITE)
            ELSE img
    IN  StrokeRect(labelled, x1, y1, x2, y2, st.color, st.thickness)

RECURSIVE DrawLoop(_, _, _)
DrawLoop(img, res, k) ==
    IF k > Len(res.cls) THEN img
    ELSE DrawLoop(DrawOne(img, res.xyxy[k], LabelOf(res, k)), res, k + 1)

\* img.copy(): a new array holding the same pixels
np_copy(h, r) == [heap |-> Append(h, h[r]), ref |-> Len(h) + 1]

\* a mutant of draw_detections: the drawing starts from what the call before
\* it left behind
draw_detections_sticky(h, r, res) ==
    [heap |-> [h EXCEPT ![r] =
                  DrawLoop(IF calls = <<>> THEN h[r] ELSE calls[Len(calls)].after, res, 1)],
     ref |-> r]

\* draw_detections(img, result): draws on the array it is given and returns it
draw_detections(h, r, res) ==
    [heap |-> [h EXCEPT ![r] = DrawLoop(h[r], res, 1)], ref |-> r]

\* a mutant of RenderCopy: the decoded image itself is handed to draw_detections
RenderInPlace(h, r, res) == draw_detections(h, r, res)

\* line 156: annotated = draw_detections(img.copy(), result)
RenderCopy(h, r, res) ==
    LET c == np_copy(h, r)
    IN  draw_detections(c.heap, c.ref, res)

(***************************************************************************)
(* detect_route: the success body                                          *)
(***************************************************************************)
DetectBody(open_cnt, occ_cnt) ==
    LET total == open_cnt + occ_cnt
    IN  [ok |-> TRUE, free |-> open_cnt, occupied |-> occ_cnt, total |-> total,
         openCount |-> open_cnt, occupiedCount |-> occ_cnt]

(***************************************************************************)
(* CountSpec: inputs                                                       *)
(***************************************************************************)
MaxDets == 3

Spellings(S) == S \cup {str_upper(s) : s \in S} \cup {str_capitalize(s) : s \in S}

\* labels in neither set: other words, a prefix, an extension, padding, empty
OtherLabels == { <<"c","a","r">>, <<"f","r","e">>, <<"f","r","e","e","d">>,
                 <<"f","r","e","e"," ">>, <<>> }

\* result.names maps class index 0 to a free label, 1 to an occupied label and
\* 2 to a label of neither set; the first two in any spelling
Vocabularies ==
    { [c \in 0..2 |-> IF c = 0 THEN f ELSE IF c = 1 THEN o ELSE u] :
      f \in Spellings(FREE_LABELS), o \in Spellings(OCC_LABELS), u \in OtherLabels }

\* result.boxes.cls: up to MaxDets class indices
ClsSeqs == UNION { [1..n -> 0..2] : n \in 0..MaxDets }

CountOff == cpc = "off" /\ counts = None /\ branches = None /\ styles = None /\ body = None
ServerOff ==
    /\ file = None /\ pc = None /\ loc = None /\ resp = None /\ eff = None
    /\ anyOk = FALSE /\ lastOk = None /\ got200 = FALSE /\ overlap = FALSE /\ nreq = 0
RenderOff == heap = <<>> /\ imgRef = None /\ annRef = None /\ calls = <<>>

CountInit ==
    /\ RenderOff
    /\ ServerOff
    /\ cpc = "infer"
    /\ result \in { [names |-> n, cls |-> c] : n \in Vocabularies, c \in ClsSeqs }
    /\ counts = None
    /\ branches = None
    /\ styles = None
    /\ body = None

\* line 154
CallCountSpots ==
    /\ cpc = "infer"
    /\ counts' = count_spots(result)
    /\ branches' = [k \in 1..Len(result.cls) |-> CountBranch(LabelOf(result, k))]
    /\ cpc' = "count"
    /\ UNCHANGED <<result, styles, body, renderVars, serverVars>>

\* line 156, the style of each detection
CallDrawStyles ==
    /\ cpc = "count"
    /\ styles' = [k \in 1..Len(result.cls) |-> DrawStyle(LabelOf(result, k))]
    /\ cpc' = "draw"
    /\ UNCHANGED <<result, counts, branches, body, renderVars, serverVars>>

\* lines 159-175
BuildBody ==
    /\ cpc = "draw"
    /\ body' = DetectBody(counts[1], counts[2])
    /\ cpc' = "done"
    /\ UNCHANGED <<result, counts, branches, styles, renderVars, serverVars>>

CountNext == CallCountSpots \/ CallDrawStyles \/ BuildBody

CountSpec == CountInit /\ [][CountNext]_vars

(***************************************************************************)
(* RenderSpec: draw_detections called on arrays of a heap, directly and    *)
(* the way detect_route calls it                                           *)
(***************************************************************************)
ImgW == 6
ImgH == 5
MaxCalls == 2
MaxArrays == 3

GREY  == <<100, 100, 100>>
BLACK == <<0, 0, 0>>

Uniform(color) == [h |-> ImgH, w |-> ImgW, px |-> [p \in (0..(ImgH - 1)) \X (0..(ImgW - 1)) |-> color]]

RenderImages == { Uniform(GREY), Uniform(BLACK) }

\* the vocabulary of the detector of the rendering runs
RenderNames ==
    [c \in 0..2 |-> IF c = 0 THEN <<"F","r","e","e">>
                    ELSE IF c = 1 THEN <<"o","c","c","u","p","i","e","d">>
                    ELSE <<"c","a","r">>]

\* boxes.xyxy rows, in half pixels: inside the image, at its top-left corner,
\* reaching past its right edge, and low enough for its label text to show
BoxA == <<3, 5, 9, 8>>
BoxB == <<0, 1, 5, 4>>
BoxC == <<6, 2, 14, 7>>
BoxD == <<0, 8, 4, 9>>

Detections(cls, xyxy) == [names |-> RenderNames, cls |-> cls, xyxy |-> xyxy]

RenderResults ==
    { Detections(<<>>, <<>>),
      Detections(<<0>>, <<BoxA>>),
      Detections(<<1>>, <<BoxA>>),
      Detections(<<2>>, <<BoxB>>),
      Detections(<<0, 1>>, <<BoxA, BoxB>>),
      Detections(<<1, 0>>, <<BoxC, BoxB>>),
      Detections(<<0>>, <<BoxD>>) }

RenderInit ==
    /\ CountOff
    /\ ServerOff
    /\ result \in RenderResults
    /\ \E im \in RenderImages : heap = <<im>>
    /\ imgRef = 1
    /\ annRef = None
    /\ calls = <<>>

CallRecord(fn, arg, d) ==
    [fn |-> fn, arg |-> arg, before |-> heap[arg], argAfter |-> d.heap[arg],
     ret |-> d.ref, after |-> d.heap[d.ref]]

\* a caller hands array r to draw_detections
CallDrawDetections(r) ==
    /\ Len(calls) < MaxCalls
    /\ LET d == draw_detections(heap, r, result)
       IN  /\ heap' = d.heap
           /\ calls' = Append(calls, CallRecord("draw_detections", r, d))
    /\ UNCHANGED <<result, imgRef, annRef, countVars, serverVars>>

\* a caller copies array r
CallCopy(r) ==
    /\ Len(heap) < MaxArrays
    /\ heap' = np_copy(heap, r).heap
    /\ UNCHANGED <<result, imgRef, annRef, calls, countVars, serverVars>>

\* line 156 of detect_route, on its decoded image
DetectRender ==
    /\ Len(calls) < MaxCalls
    /\ Len(heap) < MaxArrays
    /\ LET d == RenderCopy(heap, imgRef, result)
       IN  /\ heap' = d.heap
           /\ annRef' = d.ref
           /\ calls' = Append(calls, CallRecord("detect_route", imgRef, d))
    /\ UNCHANGED <<result, imgRef, countVars, serverVars>>

RenderNext ==
    \/ \E r \in 1..Len(heap) : CallDrawDetections(r)
    \/ \E r \in 1..Len(heap) : CallCopy(r)
    \/ DetectRender

RenderSpec == RenderInit /\ [][RenderNext]_vars

(***************************************************************************)
(* Codecs.  An encoded image is a sequence of blocks of bytes; a block is  *)
(* [tag, h, w, px].  The JPEG encoder is lossy: it keeps each channel      *)
(* only to a multiple of 8, and hands the file its bytes in two blocks.    *)
(***************************************************************************)
JpegQuant(v) == (v \div 8) * 8

EncodeRows(img, lo, hi) ==
    [p \in (lo..hi) \X (0..(img.w - 1)) |-> [c \in 1..3 |-> JpegQuant(img.px[p][c])]]

\* the bytes cv2.imwrite produces for a .jpg path
Encode(img) ==
    << [tag |-> "jpeg-head", h |-> img.h, w |-> img.w,
        px |-> EncodeRows(img, 0, (img.h \div 2) - 1)],
       [tag |-> "jpeg-tail", h |-> img.h, w |-> img.w,
        px |-> EncodeRows(img, img.h \div 2, img.h - 1)] >>

\* whether cv2.imdecode recognises the bytes
CanDecode(data) ==
    /\ Len(data) = 2
    /\ data[1].tag = "jpeg-head" /\ data[2].tag = "jpeg-tail"
    /\ data[1].h = data[2].h /\ data[1].w = data[2].w

\* cv2.imdecode(arr, cv2.IMREAD_COLOR) on bytes it recognises
imdecode(data) ==
    [h |-> data[1].h, w |-> data[1].w,
     px |-> [p \in (0..(data[1].h - 1)) \X (0..(data[1].w - 1)) |->
                IF p[1] < data[1].h \div 2 THEN data[1].px[p] ELSE data[2].px[p]]]

JunkBlock == [tag |-> "junk",  h |-> 0, w |-> 0, px |-> <<>>]
ZeroBlock == [tag |-> "zeros", h |-> 0, w |-> 0, px |-> <<>>]

(***************************************************************************)
(* The file at LAST_PATH                                                   *)
(***************************************************************************)
Absent == [exists |-> FALSE, data |-> <<>>]

\* os.path.exists(LAST_PATH)
path_exists(f) == f.exists

\* send_file(LAST_PATH): the bytes the file holds when it is read
send_file(f) == f.data

\* a mutant of imwrite_open: the old file is removed and the new one appears
\* only with its first block
imwrite_unlink(f) == [exists |-> FALSE, data |-> <<>>]

\* cv2.imwrite opens LAST_PATH for writing: the file exists and is empty
imwrite_open(f) == [exists |-> TRUE, data |-> <<>>]

\* cv2.imwrite writes block k of its bytes at the k-th place of the file; a
\* place the file does not reach yet is filled with zeros
imwrite_block(f, k, block) ==
    [exists |-> TRUE,
     data |-> [i \in 1..Max(Len(f.data), k) |->
                  IF i = k THEN block
                  ELSE IF i <= Len(f.data) THEN f.data[i] ELSE ZeroBlock]]

(***************************************************************************)
(* Spec: the routes, each request on its own thread                        *)
(***************************************************************************)
Threads == {"t1", "t2"}
MaxReq == 3

Upload(data) == [field |-> TRUE, data |-> data]
NoField == [field |-> FALSE, data |-> <<>>]

\* request.files of a /detect request: no "image" field, an empty one, bytes
\* that are no image, a cut-off image, an image
Uploads ==
    { NoField, Upload(<<>>), Upload(<<JunkBlock>>),
      Upload(<<Encode(Uniform(GREY))[1]>>), Upload(Encode(Uniform(GREY))) }

\* what api_model(img, conf=0.35, iou=0.50)[0] may return
ServerResults ==
    { Detections(<<>>, <<>>),
      Detections(<<0>>, <<BoxD>>),
      Detections(<<1, 2>>, <<BoxA, BoxB>>) }

\* the artifact a run of the service before this process left at LAST_PATH
Leftover == [exists |-> TRUE, data |-> Encode(Uniform(BLACK))]

Response(route, status, error, json, data) ==
    [route |-> route, status |-> status, error |-> error, json |-> json, data |-> data]
NoResp == Response("none", 0, "", None, <<>>)

LocIdle == [img |-> None, result |-> None, counts |-> None, annotated |-> None, k |-> 0]

\* the history of one request: its route and upload, whether it invoked the
\* detector, how far it wrote the file, and whether a /detect had answered
\* ok=true when it arrived
Effect(route, upload) ==
    [route |-> route, upload |-> upload, invoked |-> FALSE, wrote |-> "no",
     okBefore |-> anyOk]

EffIdle ==
    [route |-> "none", upload |-> NoField, invoked |-> FALSE, wrote |-> "no",
     okBefore |-> FALSE]

\* a mutant of ReceiveUpload: the bytes are decoded before they are counted
ReceiveUploadDecodeFirst(u) ==
    IF ~u.field
    THEN [ok |-> FALSE, error |-> "missing file field \"image\"", img |-> None]
    ELSE IF ~CanDecode(u.data)
    THEN [ok |-> FALSE, error |-> "decode failed (bad image bytes)", img |-> None]
    ELSE IF Len(u.data) = 0
    THEN [ok |-> FALSE, error |-> "empty upload", img |-> None]
    ELSE [ok |-> TRUE, error |-> "", img |-> imdecode(u.data)]

\* lines 139-150 of detect_route
ReceiveUpload(u) ==
    IF ~u.field
    THEN [ok |-> FALSE, error |-> "missing file field \"image\"", img |-> None]
    ELSE IF Len(u.data) = 0
    THEN [ok |-> FALSE, error |-> "empty upload", img |-> None]
    ELSE IF ~CanDecode(u.data)
    THEN [ok |-> FALSE, error |-> "decode failed (bad image bytes)", img |-> None]
    ELSE [ok |-> TRUE, error |-> "", img |-> imdecode(u.data)]

Init ==
    /\ CountOff
    /\ RenderOff
    /\ result = None
    /\ file \in {Absent, Leftover}
    /\ pc = [t \in Threads |-> "idle"]
    /\ loc = [t \in Threads |-> LocIdle]
    /\ resp = [t \in Threads |-> NoResp]
    /\ eff = [t \in Threads |-> EffIdle]
    /\ anyOk = FALSE
    /\ lastOk = None
    /\ got200 = FALSE
    /\ overlap = FALSE
    /\ nreq = 0

\* the server hands a request to thread t
Arrive(t) ==
    /\ pc[t] = "idle"
    /\ nreq < MaxReq
    /\ nreq' = nreq + 1
    /\ overlap' = (overlap \/ \E o \in Threads \ {t} : pc[o] # "idle")

Respond(t, r) ==
    /\ pc' = [pc EXCEPT ![t] = "idle"]
    /\ loc' = [loc EXCEPT ![t] = LocIdle]
    /\ resp' = [resp EXCEPT ![t] = r]

\* POST /detect, lines 139-150: the upload is read, checked and decoded
detect_route(t, u) ==
    /\ Arrive(t)
    /\ UNCHANGED <<file, anyOk, lastOk, got200>>
    /\ LET r == ReceiveUpload(u)
       IN  IF r.ok
           THEN /\ pc' = [pc EXCEPT ![t] = "infer"]
                /\ loc' = [loc EXCEPT ![t] = [LocIdle EXCEPT !.img = r.img]]
                /\ resp' = [resp EXCEPT ![t] = NoResp]
                /\ eff' = [eff EXCEPT ![t] = Effect("detect", u)]
           ELSE /\ Respond(t, Response("detect", 400, r.error, None, <<>>))
                /\ eff' = [eff EXCEPT ![t] = Effect("detect", u)]
    /\ UNCHANGED <<result, countVars, renderVars>>

\* lines 153-156: the detector answers; the spots are counted and drawn
Infer(t, res) ==
    /\ pc[t] = "infer"
    /\ LET d == RenderCopy(<<loc[t].img>>, 1, res)
       IN  loc' = [loc EXCEPT ![t] =
                      [img |-> d.heap[1], result |-> res, counts |-> count_spots(res),
                       annotated |-> d.heap[d.ref], k |-> 0]]
    /\ pc' = [pc EXCEPT ![t] = "imwrite"]
    /\ eff' = [eff EXCEPT ![t].invoked = TRUE]
    /\ UNCHANGED <<file, resp, anyOk, lastOk, got200, overlap, nreq>>
    /\ UNCHANGED <<result, countVars, renderVars>>

\* line 153: the detector raises; Flask answers 500
InferRaise(t) ==
    /\ pc[t] = "infer"
    /\ Respond(t, Response("detect", 500, "Internal Server Error", None, <<>>))
    /\ UNCHANGED <<file, anyOk, lastOk, got200, overlap, nreq>>
    /\ eff' = [eff EXCEPT ![t] = [eff[t] EXCEPT !.invoked = TRUE]]
    /\ UNCHANGED <<result, countVars, renderVars>>

\* line 157: cv2.imwrite opens the file
ImwriteOpen(t) ==
    /\ pc[t] = "imwrite"
    /\ file' = imwrite_open(file)
    /\ pc' = [pc EXCEPT ![t] = "write"]
    /\ loc' = [loc EXCEPT ![t].k = 1]
    /\ eff' = [eff EXCEPT ![t].wrote = "part"]
    /\ UNCHANGED <<resp, anyOk, lastOk, got200, overlap, nreq>>
    /\ UNCHANGED <<result, countVars, renderVars>>

\* line 157: cv2.imwrite cannot open the file and returns False, which
\* detect_route does not look at
ImwriteFail(t) ==
    /\ pc[t] = "imwrite"
    /\ pc' = [pc EXCEPT ![t] = "respond"]
    /\ UNCHANGED <<file, loc, resp, eff, anyOk, lastOk, got200, overlap, nreq>>
    /\ UNCHANGED <<result, countVars, renderVars>>

\* line 157: cv2.imwrite writes its next block; after the last it returns True
ImwriteBlock(t) ==
    /\ pc[t] = "write"
    /\ LET bytes == Encode(loc[t].annotated)
           k == loc[t].k
       IN  /\ file' = imwrite_block(file, k, bytes[k])
           /\ IF k < Len(bytes)
              THEN /\ loc' = [loc EXCEPT ![t].k = k + 1]
                   /\ UNCHANGED <<pc, eff>>
              ELSE /\ pc' = [pc EXCEPT ![t] = "respond"]
                   /\ eff' = [eff EXCEPT ![t].wrote = "full"]
                   /\ UNCHANGED loc
    /\ UNCHANGED <<resp, anyOk, lastOk, got200, overlap, nreq>>
    /\ UNCHANGED <<result, countVars, renderVars>>

\* lines 159-175: the success body
DetectRespond(t) ==
    /\ pc[t] = "respond"
    /\ Respond(t, Response("detect", 200, "",
                           DetectBody(loc[t].counts[1], loc[t].counts[2]), <<>>))
    /\ anyOk' = TRUE
    /\ lastOk' = Encode(loc[t].annotated)
    /\ UNCHANGED <<file, eff, got200, overlap, nreq>>
    /\ UNCHANGED <<result, countVars, renderVars>>

\* GET /get_image, lines 189-190: the file is looked for
get_image(t) ==
    /\ Arrive(t)
    /\ UNCHANGED <<file, anyOk, lastOk, got200>>
    /\ eff' = [eff EXCEPT ![t] = Effect("get_image", NoField)]
    /\ IF ~path_exists(file)
       THEN Respond(t, Response("get_image", 404, "No image available", None, <<>>))
       ELSE /\ pc' = [pc EXCEPT ![t] = "send"]
            /\ resp' = [resp EXCEPT ![t] = NoResp]
            /\ UNCHANGED loc
    /\ UNCHANGED <<result, countVars, renderVars>>

\* line 192: the file is read and sent
get_image_send(t) ==
    /\ pc[t] = "send"
    /\ Respond(t, Response("get_image", 200, "", None, send_file(file)))
    /\ got200' = TRUE
    /\ UNCHANGED <<file, eff, anyOk, lastOk, overlap, nreq>>
    /\ UNCHANGED <<result, countVars, renderVars>>

\* GET /status, lines 206-210
status(t) ==
    /\ Arrive(t)
    /\ Respond(t, Response("status", 200, "",
                           [status |-> "running", model |-> "best.pt",
                            classes |-> RenderNames], <<>>))
    /\ UNCHANGED <<file, anyOk, lastOk, got200>>
    /\ eff' = [eff EXCEPT ![t] = Effect("status", NoField)]
    /\ UNCHANGED <<result, countVars, renderVars>>

Next ==
    \/ \E t \in Threads, u \in Uploads : detect_route(t, u)
    \/ \E t \in Threads, res \in ServerResults : Infer(t, res)
    \/ \E t \in Threads : InferRaise(t)
    \/ \E t \in Threads : ImwriteOpen(t)
    \/ \E t \in Threads : ImwriteFail(t)
    \/ \E t \in Threads : ImwriteBlock(t)
    \/ \E t \in Threads : DetectRespond(t)
    \/ \E t \in Threads : get_image(t)
    \/ \E t \in Threads : get_image_send(t)
    \/ \E t \in Threads : status(t)

Spec == Init /\ [][Next]_vars

(***************************************************************************)
(* Properties of count_spots and of the labels (CountSpec)                 *)
(***************************************************************************)
FreeWords == { <<"f","r","e","e">>, <<"o","p","e","n">>, <<"v","a","c","a","n","t">>,
               <<"e","m","p","t","y">>, <<"a","v","a","i","l","a","b","l","e">> }
OccWords  == { <<"o","c","c","u","p","i","e","d">>, <<"t","a","k","e","n">>,
               <<"p","a","r","k","e","d">>, <<"b","l","o","c","k","e","d">> }

\* label l spells word w, in small or capital letters
Spells(l, w) ==
    /\ Len(l) = Len(w)
    /\ \A i \in 1..Len(w) : l[i] = w[i] \/ l[i] = UpperChar(w[i])

IsFree(l) == \E w \in FreeWords : Spells(l, w)
IsOcc(l)  == \E w \in OccWords : Spells(l, w)

RawLabel(k) == result.names[result.cls[k]]
FreeAt == { k \in 1..Len(result.cls) : IsFree(RawLabel(k)) }
OccAt  == { k \in 1..Len(result.cls) : IsOcc(RawLabel(k)) }

\* C5: every detection falls in exactly one of Free, Occupied and Unknown:
\* count_spots takes its free branch iff the label spells a word of FREE_LABELS
\* in any case, its occupied branch iff it spells a word of OCC_LABELS, and
\* neither otherwise; the two sets are disjoint; draw_detections styles a
\* detection as free iff count_spots counted it as free.
C5_Classification ==
    /\ FREE_LABELS = FreeWords /\ OCC_LABELS = OccWords
    /\ FREE_LABELS \cap OCC_LABELS = {}
    /\ cpc \in {"draw", "done"} =>
          \A k \in 1..Len(result.cls) :
              /\ (branches[k] = "open") <=> IsFree(RawLabel(k))
              /\ (branches[k] = "occ") <=> IsOcc(RawLabel(k))
              /\ (branches[k] = "skip") <=> (~IsFree(RawLabel(k)) /\ ~IsOcc(RawLabel(k)))
              /\ ~(IsFree(RawLabel(k)) /\ IsOcc(RawLabel(k)))
              /\ styles[k].free <=> (branches[k] = "open")

\* a result with a free label spelled with capitals, an occupied and an unknown
\* detection has been counted and styled
C5_Witness ==
    /\ cpc = "done"
    /\ result.cls = <<0, 1, 2>>
    /\ result.names[0] \notin FREE_LABELS
    /\ branches = <<"open", "occ", "skip">>
    /\ styles[1].free /\ ~styles[2].free /\ ~styles[3].free

C8_ArgumentUntouched ==
    \A i \in 1..Len(calls) :
        calls[i].fn = "draw_detections" => calls[i].argAfter = calls[i].before

\* C8 amended: draw_detections draws on the array it is given and returns that
\* array; the copy is made by detect_route (img.copy() at line 156), so it is
\* detect_route's decoded img that keeps its pixels, the annotations being in
\* the separate array annotated.
C8_CopyByCaller ==
    \A i \in 1..Len(calls) :
        /\ calls[i].fn = "draw_detections" =>
              /\ calls[i].ret = calls[i].arg
              /\ calls[i].argAfter = calls[i].after
        /\ calls[i].fn = "detect_route" =>
              /\ calls[i].argAfter = calls[i].before
              /\ calls[i].ret # calls[i].arg
              /\ calls[i].after = DrawLoop(calls[i].before, result, 1)

\* line 156 ran with detections that changed pixels, and draw_detections was
\* called directly with such detections too
C8_Witness ==
    /\ \E i \in 1..Len(calls) :
          calls[i].fn = "detect_route" /\ calls[i].after # calls[i].before
    /\ \E i \in 1..Len(calls) :
          calls[i].fn = "draw_detections" /\ calls[i].after # calls[i].before

Answered(t, route) == pc[t] = "idle" /\ resp[t].route = route

\* the step in which thread t answers a GET /get_image
get_image_answers(t) == (get_image(t) /\ pc'[t] = "idle") \/ get_image_send(t)

\* C1: a GET /get_image that arrives before any /detect of this process has
\* answered ok=true is answered 404 "No image available".
C1_NotFoundBeforeDetect ==
    \A t \in Threads :
        (Answered(t, "get_image") /\ ~eff[t].okBefore) =>
            /\ resp[t].status = 404
            /\ resp[t].error = "No image available"

\* C2: when no two requests overlapped and some /detect has answered ok=true,
\* GET /get_image answers 200 with the artifact of the latest /detect that
\* answered ok=true.
C2_LastWriterWins ==
    [][\A t \in Threads :
          (get_image_answers(t) /\ ~overlap' /\ anyOk) =>
              /\ resp'[t].status = 200
              /\ resp'[t].data = lastOk]_vars

\* C3: a /detect without an "image" field, with an empty one, or with bytes
\* that do not decode is answered 400 with the message of the first check it
\* fails, in that order, in a step that ends the request without invoking the
\* detector and leaves the file as it was.
C3_RejectedUploads ==
    [][\A t \in Threads, u \in Uploads :
          (detect_route(t, u) /\ (~u.field \/ Len(u.data) = 0 \/ ~CanDecode(u.data))) =>
              /\ pc'[t] = "idle"
              /\ resp'[t].route = "detect" /\ resp'[t].status = 400
              /\ resp'[t].error =
                    (IF ~u.field THEN "missing file field \"image\""
                     ELSE IF Len(u.data) = 0 THEN "empty upload"
                     ELSE "decode failed (bad image bytes)")
              /\ ~eff'[t].invoked /\ eff'[t].wrote = "no"
              /\ file' = file]_vars

\* after a /detect stored its image, one thread was answered "empty upload" and
\* the other "decode failed (bad image bytes)"
C3_Witness ==
    /\ anyOk /\ file.exists
    /\ \E t \in Threads : Answered(t, "detect") /\ resp[t].error = "empty upload"
    /\ \E t \in Threads :
          Answered(t, "detect") /\ resp[t].error = "decode failed (bad image bytes)"

\* the artifacts a complete write can leave in the file
CompleteArtifacts ==
    {Leftover.data} \cup
    { Encode(DrawLoop(imdecode(u.data), res, 1)) :
        u \in {v \in Uploads : v.field /\ CanDecode(v.data)}, res \in ServerResults }

\* C4: every 200 answer of /get_image carries a complete artifact, written by
\* one request.
C4_NoTornRead ==
    \A t \in Threads :
        (Answered(t, "get_image") /\ resp[t].status = 200) =>
            resp[t].data \in CompleteArtifacts

\* C7: a /detect that answers ok=true has written its whole image to the file,
\* and a /detect that answers anything else has not written to the file.
C7_AllOrNothing ==
    \A t \in Threads :
        Answered(t, "detect") =>
            /\ resp[t].status = 200 => eff[t].wrote = "full"
            /\ resp[t].status # 200 => eff[t].wrote = "no"

\* C10: the file changes only in the steps in which a /detect writes it;
\* /get_image and /status leave it as it is; once it exists it exists from then
\* on; and once /get_image has answered 200 it does not answer 404.
C10_CacheOnlyWritten ==
    [][/\ file' # file => \E t \in Threads : ImwriteOpen(t) \/ ImwriteBlock(t)
       /\ \A t \in Threads :
             (get_image(t) \/ get_image_send(t) \/ status(t)) => file' = file
       /\ path_exists(file) => path_exists(file')
       /\ got200 => \A t \in Threads : get_image_answers(t) => resp'[t].status = 200]_vars

\* /get_image answered 200 twice, with different artifacts: a /detect replaced
\* the file in between
C10_Witness ==
    /\ got200
    /\ \A t \in Threads : Answered(t, "get_image") /\ resp[t].status = 200
    /\ \E t, o \in Threads : resp[t].data # resp[o].data

=============================================================================
